---------------------------- MODULE Spec2Model ----------------------------
(***************************************************************************)
(* A model of radioreddit: the file-serving HTTP handler                   *)
(* (radioreddit_httpd.py), the playlist writer (RadioReddit.create_pls)    *)
(* and the conversion pipeline (RadioReddit.create_mp3_from_subreddit).    *)
(*                                                                         *)
(* Python strings and byte strings are sequences of characters; "CR" and    *)
(* "LF" stand for the carriage-return and line-feed characters, and a      *)
(* literal of the program that no operation looks inside is one element.   *)
(***************************************************************************)
EXTENDS Integers, Sequences, FiniteSets, TLC

VARIABLES
    \* ---- radioreddit_httpd.py: one entry per connection
    pc,         \* where the connection's handler thread is
    method,     \* the request's command, "GET" or "HEAD"
    rpath,      \* self.path, the raw request target
    filename,   \* do_GET's local `filename`
    wire,       \* what has been written to the client socket, in order
    exc,        \* the exception that left the handler, "none" if none did
    closedBy,   \* who closed the connection: "none", "close_conn" or "server"
    \* ---- RadioReddit.create_pls
    tree,       \* the music directory: what os.walk finds, in its order
    plsDisk,    \* what is at each path a playlist may be written to
    plsPc,      \* where the call of create_pls is
    plsArgs,    \* its arguments
    mp3_files,  \* its local `mp3_files`
    plsRet,     \* what it returned or raised
    plsOld,     \* plsDisk as it was when the call began
    \* ---- RadioReddit.create_mp3_from_subreddit
    ppc,        \* where the call is
    pArgs,      \* its arguments
    response,   \* the JSON value subreddit_data returned
    pUrl,       \* the listing's URL
    pStdout,    \* what --list-extractors printed
    dirExists,  \* whether the mp3 directory exists
    dirBefore,  \* whether it existed when the call began
    spawned,    \* the commands handed to subprocess.Popen, in order
    stages,     \* the stages of the pipeline that have run, in order
    pExec,      \* what exec_shell_cmd returned for the conversion
    pRet,       \* what the call returned or raised
    \* ---- a direct call of one of RadioReddit's methods
    apiFn,      \* the method called last, "none" before any call
    apiArgs,    \* its arguments
    apiRet      \* what it returned or raised

httpVars == <<pc, method, rpath, filename, wire, exc, closedBy>>

plsVars == <<tree, plsDisk, plsPc, plsArgs, mp3_files, plsRet, plsOld>>

pipeVars ==
    <<ppc, pArgs, response, pUrl, pStdout, dirExists, dirBefore, spawned, stages, pExec,
      pRet>>

apiVars == <<apiFn, apiArgs, apiRet>>

vars == <<httpVars, plsVars, pipeVars, apiVars>>

(***************************************************************************)
(* Bounds of the model.                                                    *)
(***************************************************************************)
NumRequests == 2

\* the most files a directory holds
MaxFiles == 2

Requests == 1..NumRequests

None == <<"None">>

-----------------------------------------------------------------------------
(***************************************************************************)
(* Python's str operations, on sequences of characters.                    *)
(***************************************************************************)

\* s.endswith(suffix)
EndsWith(s, suffix) ==
    /\ Len(s) >= Len(suffix)
    /\ SubSeq(s, Len(s) - Len(suffix) + 1, Len(s)) = suffix

\* s.startswith(prefix)
StartsWith(s, prefix) ==
    /\ Len(s) >= Len(prefix)
    /\ SubSeq(s, 1, Len(prefix)) = prefix

\* the index of the first occurrence of character c in s at or after i, or 0
RECURSIVE FindChar(_, _, _)
FindChar(s, c, i) ==
    IF i > Len(s) THEN 0
    ELSE IF s[i] = c THEN i
    ELSE FindChar(s, c, i + 1)

\* s.split(c): the pieces of s between the occurrences of character c
RECURSIVE Split(_, _)
Split(s, c) ==
    LET k == FindChar(s, c, 1)
    IN  IF k = 0 THEN <<s>>
        ELSE <<SubSeq(s, 1, k - 1)>> \o Split(SubSeq(s, k + 1, Len(s)), c)

\* needle in hay
Contains(hay, needle) ==
    \E i \in 0..(Len(hay) - Len(needle)) : SubSeq(hay, i + 1, i + Len(needle)) = needle

\* the index at which the first occurrence of sep in s begins, or 0
RECURSIVE FindSeq(_, _, _)
FindSeq(s, sep, i) ==
    IF i + Len(sep) - 1 > Len(s) THEN 0
    ELSE IF SubSeq(s, i, i + Len(sep) - 1) = sep THEN i
    ELSE FindSeq(s, sep, i + 1)

\* s.split(sep) for a separator of one or more characters
RECURSIVE SplitSeq(_, _)
SplitSeq(s, sep) ==
    LET k == FindSeq(s, sep, 1)
    IN  IF k = 0 THEN <<s>>
        ELSE <<SubSeq(s, 1, k - 1)>> \o SplitSeq(SubSeq(s, k + Len(sep), Len(s)), sep)

\* s.split(): the runs of s between white space, none of them empty
SplitWs(s) == SelectSeq(Split(s, " "), LAMBDA w : w # <<>>)

RECURSIVE RemoveChar(_, _)

\* a replace that removes nothing
KeepChar(s, c) == s

\* s.replace(c, ''), for a character c
RemoveChar(s, c) ==
    IF s = <<>> THEN <<>>
    ELSE IF Head(s) = c THEN RemoveChar(Tail(s), c)
    ELSE <<Head(s)>> \o RemoveChar(Tail(s), c)

\* s.lower(), over the capitals the model's strings use
Capitals ==
    ("Y" :> "y") @@ ("T" :> "t") @@ ("V" :> "v") @@ ("A" :> "a") @@ ("S" :> "s")

Lower(s) == [i \in 1..Len(s) |-> IF s[i] \in DOMAIN Capitals THEN Capitals[s[i]] ELSE s[i]]

\* the concatenation of the sequences of ss
RECURSIVE Concat(_)
Concat(ss) ==
    IF ss = <<>> THEN <<>> ELSE Head(ss) \o Concat(Tail(ss))

-----------------------------------------------------------------------------
(***************************************************************************)
(* The file-serving handler, radioreddit_httpd.py.                         *)
(***************************************************************************)

\* The names the requests below ask for.
APls == <<"a", ".", "p", "l", "s">>
BMp3 == <<"b", ".", "m", "p", "3">>
KPls == <<"k", ".", "p", "l", "s">>
MPls == <<"m", ".", "p", "l", "s">>
DDir == <<"d">>

\* The local filesystem the handler reads: a text playlist with CRLF line
\* ends, an audio file on a device whose reads may block for as long as it
\* likes (slow), a file the server may not read, and a directory. Every
\* other name does not exist.
Disk ==
    (APls :> [kind |-> "file", readable |-> TRUE, slow |-> FALSE,
              bytes |-> <<"x", "CR", "LF", "y", "LF">>])
    @@ (BMp3 :> [kind |-> "file", readable |-> TRUE, slow |-> TRUE,
                 bytes |-> <<"I", "D", "3", "CR", "LF">>])
    @@ (KPls :> [kind |-> "file", readable |-> FALSE, slow |-> FALSE,
                 bytes |-> <<"z">>])
    @@ (DDir :> [kind |-> "dir", readable |-> TRUE, slow |-> FALSE,
                 bytes |-> <<>>])

\* os.path.isfile(name); isfile(None) raises TypeError and is not asked here
IsFile(name) == name \in DOMAIN Disk /\ Disk[name].kind = "file"

\* The request targets clients send.
FileEq == <<"/", "f", "i", "l", "e", "=">>

RequestPaths ==
    { FileEq \o APls,                        \* /file=a.pls
      FileEq \o BMp3,                        \* /file=b.mp3
      FileEq \o MPls,                        \* /file=m.pls, no such file
      FileEq \o KPls,                        \* /file=k.pls, unreadable
      FileEq \o DDir,                        \* /file=d, a directory
      FileEq \o <<"a", "%", "2", "E", "p", "l", "s">>,   \* /file=a%2Epls
      <<"/", "?">> \o FileEq \o APls,        \* /?/file=a.pls
      <<"/">> }                              \* /

\* The %XX escapes urllib.parse.unquote decodes, of those the requests use.
HexPairs == (<<"2", "E">> :> ".") @@ (<<"2", "6">> :> "&") @@ (<<"3", "D">> :> "=")

\* urllib.parse.unquote(s)
RECURSIVE Unquote(_)
Unquote(s) ==
    IF s = <<>> THEN <<>>
    ELSE IF s[1] = "%" /\ Len(s) >= 3 /\ SubSeq(s, 2, 3) \in DOMAIN HexPairs
         THEN <<HexPairs[SubSeq(s, 2, 3)]>> \o Unquote(SubSeq(s, 4, Len(s)))
         ELSE <<Head(s)>> \o Unquote(Tail(s))

\* '+' becomes ' ' in the names and values parse_qs returns
PlusToSpace(s) == [i \in 1..Len(s) |-> IF s[i] = "+" THEN " " ELSE s[i]]

\* urllib.parse.parse_qs(s), as the sequence of its (name, value) pairs:
\* the pieces between '&', each cut at its first '='; a piece with no '='
\* or with an empty value is dropped (keep_blank_values is False).
RECURSIVE QsPairs(_)
QsPairs(pieces) ==
    IF pieces = <<>> THEN <<>>
    ELSE LET p  == Head(pieces)
             k  == FindChar(p, "=", 1)
             nm == Unquote(PlusToSpace(SubSeq(p, 1, k - 1)))
             vl == Unquote(PlusToSpace(SubSeq(p, k + 1, Len(p))))
         IN  IF k = 0 \/ k = Len(p)
             THEN QsPairs(Tail(pieces))
             ELSE <<[name |-> nm, value |-> vl]>> \o QsPairs(Tail(pieces))

parse_qs(s) == QsPairs(Split(s, "&"))

\* qs['/file'][0]: the value of the first pair named '/file', or KeyError
get_filename_from_qs(qs) ==
    LET hits == SelectSeq(qs, LAMBDA p : p.name = <<"/", "f", "i", "l", "e">>)
    IN  IF hits = <<>> THEN [raised |-> "KeyError", value |-> None]
        ELSE [raised |-> "none", value |-> hits[1].value]

\* open(filename, 'r').read(): universal newlines turn CRLF and CR into LF
RECURSIVE TextRead(_)
TextRead(bytes) ==
    IF bytes = <<>> THEN <<>>
    ELSE IF Len(bytes) >= 2 /\ bytes[1] = "CR" /\ bytes[2] = "LF"
         THEN <<"LF">> \o TextRead(SubSeq(bytes, 3, Len(bytes)))
    ELSE IF bytes[1] = "CR" THEN <<"LF">> \o TextRead(Tail(bytes))
    ELSE <<Head(bytes)>> \o TextRead(Tail(bytes))

\* get_file_contents(filename, mode): the bytes do_GET writes, or the
\* exception open() raises
get_file_contents(name, mode) ==
    IF ~Disk[name].readable THEN [raised |-> "PermissionError", data |-> <<>>]
    ELSE IF mode = "rb" THEN [raised |-> "none", data |-> Disk[name].bytes]
    ELSE [raised |-> "none", data |-> TextRead(Disk[name].bytes)]

\* The two functions above, tabulated over the requests and files of the
\* model (each value is computed once).
FilenameOf == [p \in RequestPaths |-> get_filename_from_qs(parse_qs(Unquote(p)))]

ContentsOf ==
    [n \in {f \in DOMAIN Disk : Disk[f].kind = "file"}, mode \in {"r", "rb"} |->
        get_file_contents(n, mode)]

\* What the handler writes to the socket.
StatusLine(code) == [k |-> "status", code |-> code, data |-> <<>>]
Header(name)     == [k |-> "header", code |-> 0, data |-> name]
EndHeaders       == [k |-> "end", code |-> 0, data |-> <<>>]
Body(bytes)      == [k |-> "body", code |-> 0, data |-> bytes]
Page(msg)        == [k |-> "page", code |-> 0, data |-> msg]

\* send_response(200); send_header('Content-type', ctype); end_headers()
SendOK(ctype) == <<StatusLine(200), Header(ctype), EndHeaders>>

\* send_error(404, msg): a whole second response, with its own status line
send_error(msg) ==
    <<StatusLine(404), Header(<<"text/html">>), EndHeaders, Page(msg)>>

\* close_conn(): neither `http` nor `httpserver` is a name of the module
\* (only BaseHTTPRequestHandler and HTTPServer are imported from
\* http.server), so evaluating the call raises NameError before anything is
\* closed.
close_conn == "NameError"

\* the accept loop of a server without ThreadingMixIn: it handles one
\* connection to its end before it accepts the next
SerialAccept(r) == \A q \in Requests \ {r} : pc[q] \in {"idle", "received", "closed"}

\* ThreadedHTTPServer mixes in ThreadingMixIn: process_request starts a
\* thread for the connection and returns, so the accept loop never waits
\* for a handler.
CanAccept(r) == TRUE

\* The request lines clients send: a GET of any of the targets, or HEAD /
\* (do_HEAD never reads the target).
RequestLines ==
    {[command |-> "GET", target |-> p] : p \in RequestPaths}
        \cup {[command |-> "HEAD", target |-> <<"/">>]}

\* A client connects and sends its request line.
Connect(r) ==
    /\ pc[r] = "idle"
    /\ \E l \in RequestLines :
        /\ method' = [method EXCEPT ![r] = l.command]
        /\ rpath' = [rpath EXCEPT ![r] = l.target]
    /\ pc' = [pc EXCEPT ![r] = "received"]
    /\ UNCHANGED <<filename, wire, exc, closedBy>>
    /\ UNCHANGED plsVars
    /\ UNCHANGED pipeVars
    /\ UNCHANGED apiVars

\* The server accepts the connection and hands it to a handler.
Accept(r) ==
    /\ pc[r] = "received"
    /\ CanAccept(r)
    /\ pc' = [pc EXCEPT ![r] = "dispatched"]
    /\ UNCHANGED <<method, rpath, filename, wire, exc, closedBy>>
    /\ UNCHANGED plsVars
    /\ UNCHANGED pipeVars
    /\ UNCHANGED apiVars

\* do_HEAD
do_HEAD(r) ==
    /\ pc[r] = "dispatched"
    /\ method[r] = "HEAD"
    /\ wire' = [wire EXCEPT ![r] = @ \o SendOK(<<"text/html">>)]
    /\ pc' = [pc EXCEPT ![r] = "returned"]
    /\ UNCHANGED <<method, rpath, filename, exc, closedBy>>
    /\ UNCHANGED plsVars
    /\ UNCHANGED pipeVars
    /\ UNCHANGED apiVars

\* do_GET, lines 25-29: the 200 status line and the headers go out first
GetSendHeaders(r) ==
    /\ pc[r] = "dispatched"
    /\ method[r] = "GET"
    /\ wire' = [wire EXCEPT ![r] = @ \o SendOK(<<"audio/x-scpls">>)]
    /\ pc' = [pc EXCEPT ![r] = "parse"]
    /\ UNCHANGED <<method, rpath, filename, exc, closedBy>>
    /\ UNCHANGED plsVars
    /\ UNCHANGED pipeVars
    /\ UNCHANGED apiVars

\* do_GET, lines 30-31: the query string and get_filename_from_qs
GetFilename(r) ==
    /\ pc[r] = "parse"
    /\ LET got == FilenameOf[rpath[r]]
       IN  IF got.raised = "none"
           THEN /\ filename' = [filename EXCEPT ![r] = got.value]
                /\ pc' = [pc EXCEPT ![r] = "lookup"]
                /\ UNCHANGED <<wire, exc>>
           ELSE /\ wire' = [wire EXCEPT ![r] = @ \o send_error(<<"Expecting">>)]
                /\ exc' = [exc EXCEPT ![r] = close_conn]
                /\ pc' = [pc EXCEPT ![r] = "raised"]
                /\ UNCHANGED filename
    /\ UNCHANGED <<method, rpath, closedBy>>
    /\ UNCHANGED plsVars
    /\ UNCHANGED pipeVars
    /\ UNCHANGED apiVars

\* do_GET, line 32: file_exists
FileExists(r) ==
    /\ pc[r] = "lookup"
    /\ IF IsFile(filename[r])
       THEN /\ pc' = [pc EXCEPT ![r] = "read"]
            /\ UNCHANGED <<wire, exc>>
       ELSE /\ wire' = [wire EXCEPT ![r] = @ \o send_error(<<"not found">>)]
            /\ exc' = [exc EXCEPT ![r] = close_conn]
            /\ pc' = [pc EXCEPT ![r] = "raised"]
    /\ UNCHANGED <<method, rpath, filename, closedBy>>
    /\ UNCHANGED plsVars
    /\ UNCHANGED pipeVars
    /\ UNCHANGED apiVars

\* do_GET, lines 33-37: the read returns, the contents are written, and
\* close_conn is called
ReadFile(r) ==
    /\ pc[r] = "read"
    /\ LET mode == IF EndsWith(filename[r], <<"m", "p", "3">>) THEN "rb" ELSE "r"
           got  == ContentsOf[filename[r], mode]
       IN  IF got.raised = "none"
           THEN wire' = [wire EXCEPT ![r] = @ \o <<Body(got.data)>>]
           ELSE wire' = [wire EXCEPT ![r] = @ \o send_error(<<"Unable to read">>)]
    /\ exc' = [exc EXCEPT ![r] = close_conn]
    /\ pc' = [pc EXCEPT ![r] = "raised"]
    /\ UNCHANGED <<method, rpath, filename, closedBy>>
    /\ UNCHANGED plsVars
    /\ UNCHANGED pipeVars
    /\ UNCHANGED apiVars

\* socketserver: when the handler returns or raises, the thread's
\* finally clause runs shutdown_request, which closes the socket.
Shutdown(r) ==
    /\ pc[r] \in {"returned", "raised"}
    /\ closedBy' = [closedBy EXCEPT ![r] = "server"]
    /\ pc' = [pc EXCEPT ![r] = "closed"]
    /\ UNCHANGED <<method, rpath, filename, wire, exc>>
    /\ UNCHANGED plsVars
    /\ UNCHANGED pipeVars
    /\ UNCHANGED apiVars

HttpStart ==
    /\ pc = [r \in Requests |-> "idle"]
    /\ method = [r \in Requests |-> "GET"]
    /\ rpath = [r \in Requests |-> <<>>]
    /\ filename = [r \in Requests |-> None]
    /\ wire = [r \in Requests |-> <<>>]
    /\ exc = [r \in Requests |-> "none"]
    /\ closedBy = [r \in Requests |-> "none"]

-----------------------------------------------------------------------------
(***************************************************************************)
(* The playlist writer, RadioReddit.create_pls and find_files.             *)
(***************************************************************************)

Mp3 == <<"m", "p", "3">>

\* The file names a directory may hold: two audio files and one that
\* "*.mp3" does not match (fnmatch is case-sensitive on POSIX).
FileNames ==
    { <<"a", ".">> \o Mp3, <<"b", ".">> \o Mp3, <<"c", ".", "M", "P", "3">> }

Music == <<"/", "m">>
SubName == <<"s">>

\* the listings a directory may have: its files in the order the platform
\* iterates them, no name twice
Listings ==
    UNION { {l \in [1..n -> FileNames] : \A i, j \in 1..n : i # j => l[i] # l[j]} :
            n \in 0..MaxFiles }

NoDir == [exists |-> FALSE, files |-> <<>>]

\* the states of the music directory: missing, or there with its files and
\* perhaps one subdirectory
Trees ==
    {[root |-> NoDir, sub |-> NoDir]}
        \cup {[root |-> [exists |-> TRUE, files |-> l], sub |-> NoDir] : l \in Listings}
        \cup {[root |-> [exists |-> TRUE, files |-> l],
               sub |-> [exists |-> TRUE, files |-> k]] : l, k \in Listings}

\* os.path.join(root, name)
JoinPath(root, name) == root \o <<"/">> \o name

\* os.path.basename(path): what follows the last '/'
Basename(path) == LET parts == Split(path, "/") IN parts[Len(parts)]

\* os.walk(dirname) over tree t, top-down: the directory, then its
\* subdirectory; nothing for a directory that does not exist
Walk(t, dirname) ==
    IF dirname = Music /\ t.root.exists
    THEN <<[root |-> Music, filenames |-> t.root.files]>>
             \o (IF t.sub.exists
                 THEN <<[root |-> JoinPath(Music, SubName), filenames |-> t.sub.files]>>
                 ELSE <<>>)
    ELSE <<>>

\* fnmatch.filter(filenames, "*.<extension>")
FnmatchFilter(filenames, extension) ==
    SelectSeq(filenames, LAMBDA f : EndsWith(f, <<".">> \o extension))

\* a find_files that appends the bare file names
FoundInNames(w, extension) ==
    LET hits == FnmatchFilter(w.filenames, extension)
    IN  [i \in 1..Len(hits) |-> hits[i]]

\* the paths find_files appends for one directory of the walk
FoundIn(w, extension) ==
    LET hits == FnmatchFilter(w.filenames, extension)
    IN  [i \in 1..Len(hits) |-> JoinPath(w.root, hits[i])]

\* find_files(dirname, extension, recurse)
find_files(t, dirname, extension, recurse) ==
    LET walk  == Walk(t, dirname)
        seen  == IF recurse \/ walk = <<>> THEN walk ELSE <<walk[1]>>
    IN  Concat([i \in 1..Len(seen) |-> FoundIn(seen[i], extension)])

\* pls_file(mp3_dir, pls_file): the path given, or <mp3_dir>/<basename>.pls
pls_file(mp3_dir, given) ==
    IF given # None THEN given
    ELSE mp3_dir \o <<"/">> \o Basename(mp3_dir) \o <<".", "p", "l", "s">>

\* "{}".format(n) for a natural number n
DigitChars == <<"0", "1", "2", "3", "4", "5", "6", "7", "8", "9">>

RECURSIVE Decimal(_)
Decimal(n) ==
    IF n < 10 THEN <<DigitChars[n + 1]>>
    ELSE Decimal(n \div 10) \o <<DigitChars[(n % 10) + 1]>>

\* mp3_files.index(x): the first position of x
IndexOf(seq, x) == CHOOSE i \in 1..Len(seq) : seq[i] = x /\ \A j \in 1..(i - 1) : seq[j] # x

\* the strings create_pls writes, lines 136-141, one per write call
PlsWrites(files) ==
    <<  <<"[playlist]", "LF">>,
        <<"NumberOfEntries=">> \o Decimal(Len(files)) \o <<"LF">> >>
    \o [i \in 1..Len(files) |->
            <<"File">> \o Decimal(IndexOf(files, files[i])) \o <<"=">>
                \o files[i] \o <<"LF">>]

\* an overwrite guard with its flag inverted
RefusesOverwriteInverted(overwrite, isfile) == overwrite /\ isfile

\* create_pls, line 128: the overwrite guard
RefusesOverwrite(overwrite, isfile) == ~overwrite /\ isfile

\* The paths playlists are written to: the default one of the music
\* directory, and one outside it.
DefaultPls == pls_file(Music, None)
OtherPls == <<"/", "p", ".", "p", "l", "s">>
PlsPaths == {DefaultPls, OtherPls}

Absent == [kind |-> "absent", text |-> <<>>]
OldFile == [kind |-> "file", text |-> <<"o", "l", "d", "LF">>]
ADir == [kind |-> "dir", text |-> <<>>]

\* the path of the call's playlist
PlsPath == pls_file(plsArgs.mp3_dir, plsArgs.pls_file)

\* open(path, 'w') succeeds: the path is no directory, and the directory it
\* is in exists
CanOpen(path) ==
    /\ plsDisk[path].kind # "dir"
    /\ path = DefaultPls => tree.root.exists

NoArgs == [mp3_dir |-> None, pls_file |-> None, overwrite |-> TRUE, recurse |-> FALSE]
NoRet == [raised |-> "none", value |-> None]

\* A caller calls create_pls(mp3_dir, pls_file, overwrite, recurse).
PlsCall ==
    /\ plsPc = "idle"
    /\ \E given \in {None, OtherPls}, ow \in BOOLEAN, rec \in BOOLEAN :
        plsArgs' = [mp3_dir |-> Music, pls_file |-> given,
                    overwrite |-> ow, recurse |-> rec]
    /\ plsOld' = plsDisk
    /\ mp3_files' = <<>>
    /\ plsRet' = NoRet
    /\ plsPc' = "guard"
    /\ UNCHANGED <<tree, plsDisk>>
    /\ UNCHANGED httpVars
    /\ UNCHANGED pipeVars
    /\ UNCHANGED apiVars

\* create_pls, lines 126-130
PlsGuard ==
    /\ plsPc = "guard"
    /\ IF RefusesOverwrite(plsArgs.overwrite, plsDisk[PlsPath].kind = "file")
       THEN /\ plsRet' = [raised |-> "RadioRedditErr", value |-> None]
            /\ plsPc' = "done"
       ELSE /\ plsPc' = "scan"
            /\ UNCHANGED plsRet
    /\ UNCHANGED <<tree, plsDisk, plsArgs, mp3_files, plsOld>>
    /\ UNCHANGED httpVars
    /\ UNCHANGED pipeVars
    /\ UNCHANGED apiVars

\* create_pls, lines 131-132
PlsScan ==
    /\ plsPc = "scan"
    /\ mp3_files' = find_files(tree, plsArgs.mp3_dir, Mp3, plsArgs.recurse)
    /\ plsPc' = "write"
    /\ UNCHANGED <<tree, plsDisk, plsArgs, plsRet, plsOld>>
    /\ UNCHANGED httpVars
    /\ UNCHANGED pipeVars
    /\ UNCHANGED apiVars

\* create_pls, lines 133-145: the file is opened for writing and every line
\* is written, or open() fails
PlsWrite ==
    /\ plsPc = "write"
    /\ IF CanOpen(PlsPath)
       THEN /\ plsDisk' = [plsDisk EXCEPT ![PlsPath] =
                              [kind |-> "file", text |-> Concat(PlsWrites(mp3_files))]]
            /\ plsRet' = [raised |-> "none", value |-> PlsPath]
       ELSE /\ plsRet' = [raised |-> "RadioRedditErr", value |-> None]
            /\ UNCHANGED plsDisk
    /\ plsPc' = "done"
    /\ UNCHANGED <<tree, plsArgs, mp3_files, plsOld>>
    /\ UNCHANGED httpVars
    /\ UNCHANGED pipeVars
    /\ UNCHANGED apiVars

\* create_pls, lines 133-144: a write fails (the disk is full) after the
\* file was truncated and k of the strings were written
PlsWriteFails ==
    /\ plsPc = "write"
    /\ CanOpen(PlsPath)
    /\ \E k \in 0..(Len(PlsWrites(mp3_files)) - 1) :
        plsDisk' = [plsDisk EXCEPT ![PlsPath] =
                       [kind |-> "file",
                        text |-> Concat(SubSeq(PlsWrites(mp3_files), 1, k))]]
    /\ plsRet' = [raised |-> "RadioRedditErr", value |-> None]
    /\ plsPc' = "done"
    /\ UNCHANGED <<tree, plsArgs, mp3_files, plsOld>>
    /\ UNCHANGED httpVars
    /\ UNCHANGED pipeVars
    /\ UNCHANGED apiVars

\* The caller has its answer, and create_pls's frame is gone.
PlsReturn ==
    /\ plsPc = "done"
    /\ plsPc' = "idle"
    /\ plsArgs' = NoArgs
    /\ mp3_files' = <<>>
    /\ plsRet' = NoRet
    /\ plsOld' = plsDisk
    /\ UNCHANGED <<tree, plsDisk>>
    /\ UNCHANGED httpVars
    /\ UNCHANGED pipeVars
    /\ UNCHANGED apiVars

\* no call of create_pls is running or has run
PlsIdle ==
    /\ plsPc = "idle"
    /\ plsArgs = NoArgs
    /\ mp3_files = <<>>
    /\ plsRet = NoRet
    /\ plsOld = plsDisk

PlsStart ==
    /\ tree \in Trees
    /\ plsDisk \in [PlsPaths -> {Absent, OldFile, ADir}]
    /\ plsDisk[DefaultPls].kind # "absent" => tree.root.exists
    /\ PlsIdle

PlsQuiet ==
    /\ tree = [root |-> NoDir, sub |-> NoDir]
    /\ plsDisk = [p \in PlsPaths |-> Absent]
    /\ PlsIdle
-----------------------------------------------------------------------------
(***************************************************************************)
(* The conversion pipeline, RadioReddit.create_mp3_from_subreddit.         *)
(***************************************************************************)

\* What a call returns or raises.
Returns(v) == [raised |-> "none", value |-> v]
Raises(e)  == [raised |-> e, value |-> None]

\* JSON values as json.loads builds them: dicts, lists, strings and null.
JDict(f) == [t |-> "dict", v |-> f]
JList(s) == [t |-> "list", v |-> s]
JStr(s)  == [t |-> "str", v |-> s]
JNull    == [t |-> "null", v |-> <<>>]

\* subscripts: a string key or an integer index (counted from 0)
Key(k) == [str |-> TRUE, k |-> k, i |-> 0]
Idx(i) == [str |-> FALSE, k |-> "", i |-> i]

\* x[key], Python's subscription
GetItem(x, key) ==
    IF x.t = "dict"
    THEN IF key.str /\ key.k \in DOMAIN x.v THEN Returns(x.v[key.k])
         ELSE Raises("KeyError")
    ELSE IF x.t = "list"
    THEN IF key.str THEN Raises("TypeError")
         ELSE IF key.i < Len(x.v) THEN Returns(x.v[key.i + 1])
         ELSE Raises("IndexError")
    ELSE IF x.t = "str"
    THEN IF key.str THEN Raises("TypeError")
         ELSE IF key.i < Len(x.v) THEN Returns(JStr(<<x.v[key.i + 1]>>))
         ELSE Raises("IndexError")
    ELSE Raises("TypeError")

\* x[k1][k2]...: the first exception ends the chain
RECURSIVE GetPath(_, _)
GetPath(x, keys) ==
    IF keys = <<>> THEN Returns(x)
    ELSE LET got == GetItem(x, Head(keys))
         IN  IF got.raised # "none" THEN got ELSE GetPath(got.value, Tail(keys))

\* listing_data, lines 310-321, given what subreddit_data returned
listing_data(subreddit_data, given_type) ==
    LET listing_type == IF given_type = "None" THEN "random" ELSE given_type
    IN  IF listing_type = "random"
        THEN GetPath(subreddit_data,
                     <<Idx(0), Key("data"), Key("children"), Idx(0), Key("data")>>)
        ELSE IF listing_type = "top"
        THEN GetPath(subreddit_data, <<Key("data"), Key("children"), Idx(0), Key("data")>>)
        ELSE Raises("RadioRedditErr")

\* listing_url, lines 285-293: any exception of listing_data['url'] becomes
\* RadioRedditErr, those of listing_data itself pass through
listing_url(subreddit_data, given_type) ==
    LET data == listing_data(subreddit_data, given_type)
    IN  IF data.raised # "none" THEN data
        ELSE LET url == GetItem(data.value, Key("url"))
             IN  IF url.raised # "none" THEN Raises("RadioRedditErr") ELSE url

\* The URLs listings carry.
Https == <<"h", "t", "t", "p", "s", ":", "/", "/">>
YoutubeCom == <<"y", "o", "u", "t", "u", "b", "e", ".", "c", "o", "m">>
YoutuBe == <<"y", "o", "u", "t", "u", ".", "b", "e">>
AsdfAsdf == <<"a", "s", "d", "f", ".", "a", "s", "d", "f">>
VimeoCom == <<"v", "i", "m", "e", "o", ".", "c", "o", "m">>

Urls ==
    { Https \o YoutubeCom \o <<"/", "w">>,
      Https \o YoutuBe \o <<"/", "w">>,
      Https \o AsdfAsdf \o <<"/", "w">> }

\* the listing of one post
Post(fields) == JDict("data" :> JDict("children" :> JList(<<JDict("data" :> JDict(fields))>>)))

\* What the listing API answers: for each URL a listing in the shape of
\* top.json and one in the shape of random.json, a listing with no posts,
\* a post with no url, and an error object.
Responses ==
    { Post("url" :> JStr(u)) : u \in Urls }
        \cup { JList(<<Post("url" :> JStr(u))>>) : u \in Urls }
        \cup { JDict("data" :> JDict("children" :> JList(<<>>))),
               JList(<<>>),
               Post("title" :> JStr(<<"t">>)),
               JDict("error" :> JStr(<<"4", "0", "4">>)) }

\* urllib.parse.urlsplit(url)[1]: what lies between '//' and the next '/',
\* '?' or '#'; empty when the URL has no '//'
Netloc(url) ==
    LET k == FindSeq(url, <<"/", "/">>, 1)
        rest == SubSeq(url, k + 2, Len(url))
        ends == {i \in 1..Len(rest) : rest[i] \in {"/", "?", "#"}}
        stop == IF ends = {} THEN Len(rest) + 1
                ELSE CHOOSE i \in ends : \A j \in ends : i <= j
    IN  IF k = 0 THEN <<>> ELSE SubSeq(rest, 1, stop - 1)

\* What `youtube-dl --list-extractors` prints.
ExtractorOutputs ==
    { <<"y", "o", "u", "t", "u", "b", "e", "LF",
        "V", "i", "m", "e", "o", ":", "l", "i", "k", "e", "s", "LF">>,
      <<"Y", "o", "u", "T", "u", "b", "e", ":", "t", "v", "LF">>,
      <<"A", "d", "u", "l", "t", "S", "w", "i", "m", "LF", "LF">>,
      <<>> }

\* one line of --list-extractors, as extractor_domains keeps it (line 226)
DomainOfLine(line) == Lower(Split(line, ":")[1])

\* extractor_domains, lines 219-228, given the command's stdout
extractor_domains(stdout) ==
    LET lines == SelectSeq(Split(stdout, "LF"), LAMBDA l : l # <<>>)
    IN  [i \in 1..Len(lines) |-> DomainOfLine(lines[i])]

\* the loop of extractor_domain_is_supported, lines 190-199
RECURSIVE AnyIn(_, _)
AnyIn(entries, domain) ==
    IF entries = <<>> THEN FALSE
    ELSE IF Contains(RemoveChar(domain, "."), Head(entries)) THEN TRUE
    ELSE AnyIn(Tail(entries), domain)

\* a domain check that returns False where the method raises
SupportedOrFalse(domain, stdout) ==
    Returns(AnyIn(extractor_domains(stdout), domain))

\* extractor_domain_is_supported(domain), given the stdout of the
\* --list-extractors run it makes
extractor_domain_is_supported(domain, stdout) ==
    IF AnyIn(extractor_domains(stdout), domain) THEN Returns(TRUE)
    ELSE Raises("RadioRedditErr")

\* self.ytdl_bin, as get_ytdl_bin resolved it
SelfYtdlBin == <<"/usr/bin/youtube-dl">>

\* a command with --extract-audio ahead of --audio-format=mp3
YtdlCmdExtractFirst(url, mp3_dir, ytdl_bin) ==
    << IF ytdl_bin = None \/ ytdl_bin = <<>> THEN SelfYtdlBin ELSE ytdl_bin,
       <<"--extract-audio">>,
       <<"--audio-format=mp3">>,
       <<"--output=">> \o mp3_dir \o <<"/%(title)s.%(ext)s">>,
       <<"--restrict-filenames">>,
       <<"--verbose">>,
       url >>

\* ytdl_cmd(url, mp3_dir, ytdl_bin), lines 483-495
ytdl_cmd(url, mp3_dir, ytdl_bin) ==
    << IF ytdl_bin = None \/ ytdl_bin = <<>> THEN SelfYtdlBin ELSE ytdl_bin,
       <<"--audio-format=mp3">>,
       <<"--extract-audio">>,
       <<"--output=">> \o mp3_dir \o <<"/%(title)s.%(ext)s">>,
       <<"--restrict-filenames">>,
       <<"--verbose">>,
       url >>

\* the command of extractor_domains, line 220
ListExtractorsCmd == <<SelfYtdlBin, <<"--list-extractors">>>>

\* What the conversion prints: words and the characters between them.
Mp3Path == <<"/m/t.mp3">>
DestinationLine == <<"[ffmpeg]", " ", "Destination", ":", " ">> \o Mp3Path
SkippingLine ==
    <<"[ffmpeg]", " ", "Post-process", " ", "file", " ">> \o Mp3Path
        \o <<" ", "exists", ",", " ", "skipping">>
DownloadLine == <<"[download]", " ", "1", "0", "0", "%">>
ErrorLine == <<"ERROR", ":", " ", "no", " ", "video">>
WarningLine == <<"WARNING", ":", " ", "slow">>

TextOf(lines) == Concat([i \in 1..Len(lines) |-> lines[i] \o <<"LF">>])

ConversionStdouts ==
    { TextOf(<<DownloadLine, DestinationLine>>),
      TextOf(<<DownloadLine, SkippingLine>>),
      TextOf(<<DestinationLine, SkippingLine>>),
      TextOf(<<SkippingLine, DestinationLine>>),
      TextOf(<<DownloadLine>>),
      <<>> }

\* a directory whose name holds ': ', and what the conversion prints when it
\* writes there
ColonDir == <<"/", "m", ":", " ", "x">>
ColonDestinationLine ==
    <<"[ffmpeg]", " ", "Destination", ":", " ", "/m", ":", " ", "x/t.mp3">>

ColonStdouts ==
    { TextOf(<<DownloadLine, ColonDestinationLine>>),
      TextOf(<<DownloadLine>>) }

ConversionStderrs ==
    { TextOf(<<WarningLine, ErrorLine>>), TextOf(<<WarningLine>>), <<>> }

\* the loop of create_mp3 over the lines of stdout, lines 69-78
RECURSIVE ScanStdout(_)
ScanStdout(lines) ==
    IF lines = <<>> THEN Returns(None)
    ELSE LET line == Head(lines)
         IN  IF /\ Contains(line, <<"Post-process", " ", "file">>)
                /\ EndsWith(line, <<"skipping">>)
             THEN LET words == SplitWs(SplitSeq(line, <<" ", "exists">>)[1])
                  IN  IF words = <<>> THEN Raises("IndexError")
                      ELSE [raised |-> "RadioRedditErr",
                            value |-> words[Len(words)]
                                          \o <<" already exists, skipping.">>]
             ELSE IF Contains(line, <<"[ffmpeg]", " ", "Destination", ":">>)
             THEN LET parts == SplitSeq(line, <<":", " ">>)
                  IN  IF Len(parts) < 2 THEN Raises("IndexError")
                      ELSE Returns(parts[2])
             ELSE ScanStdout(Tail(lines))

\* an outcome read from stdout whatever the exit code
OutcomeIgnoringExit(rc, out, err) == ScanStdout(Split(out, "LF"))

\* create_mp3, lines 64-78, given what exec_shell_cmd returned
create_mp3_outcome(rc, out, err) ==
    IF rc # 0 THEN [raised |-> "RadioRedditErr", value |-> err]
    ELSE ScanStdout(Split(out, "LF"))

\* The directory mp3 files are written to.
DestDir == <<"/", "m">>

ListingTypes == {"None", "random", "top", "new"}

NoPipeArgs == [mp3_dir |-> None, create_mp3_dir |-> TRUE, listing_type |-> "None"]

\* no conversion has run
NoExec == [rc |-> 0, out |-> <<>>, err |-> <<>>]

Stage(name, ok) == [name |-> name, ok |-> ok]

\* no direct call has been made, or the last one is forgotten
ApiStart == apiFn = "none" /\ apiArgs = <<>> /\ apiRet = Returns(None)

ApiForget == apiFn' = "none" /\ apiArgs' = <<>> /\ apiRet' = Returns(None)

\* A caller calls create_mp3_from_subreddit; lines 100-101: with no
\* mp3_dir given, self.mp3_dir() is called without its argument.
PipeCall ==
    /\ ppc = "idle"
    /\ \E d \in {None, DestDir, ColonDir}, c \in BOOLEAN, t \in ListingTypes :
        /\ pArgs' = [mp3_dir |-> d, create_mp3_dir |-> c, listing_type |-> t]
        /\ IF d = None
           THEN ppc' = "done" /\ pRet' = Raises("TypeError")
           ELSE ppc' = "fetch" /\ pRet' = Returns(None)
    /\ response' = JNull
    /\ pUrl' = None
    /\ pStdout' = <<>>
    /\ dirBefore' = dirExists
    /\ spawned' = <<>>
    /\ stages' = <<>>
    /\ pExec' = NoExec
    /\ ApiForget
    /\ UNCHANGED dirExists
    /\ UNCHANGED httpVars
    /\ UNCHANGED plsVars

\* subreddit_data, lines 423-441: the listing is fetched and decoded
PipeFetch ==
    /\ ppc = "fetch"
    /\ response' \in Responses
    /\ stages' = Append(stages, Stage("fetch", TRUE))
    /\ ppc' = "extract"
    /\ UNCHANGED <<pArgs, pUrl, pStdout, dirExists, dirBefore, spawned, pRet, pExec>>
    /\ UNCHANGED apiVars
    /\ UNCHANGED httpVars
    /\ UNCHANGED plsVars

\* subreddit_data, lines 433-435 and 439-441: the request fails, or the
\* body is not JSON
PipeFetchFails ==
    /\ ppc = "fetch"
    /\ stages' = Append(stages, Stage("fetch", FALSE))
    /\ pRet' = Raises("RadioRedditErr")
    /\ ppc' = "done"
    /\ UNCHANGED <<pArgs, response, pUrl, pStdout, dirExists, dirBefore, spawned, pExec>>
    /\ UNCHANGED apiVars
    /\ UNCHANGED httpVars
    /\ UNCHANGED plsVars

\* listing_data, lines 312-321, and listing_url, lines 286-293
PipeExtract ==
    /\ ppc = "extract"
    /\ LET got == listing_url(response, pArgs.listing_type)
       IN  /\ stages' = Append(stages, Stage("extract", got.raised = "none"))
           /\ IF got.raised = "none"
              THEN pUrl' = got.value.v /\ ppc' = "verify" /\ UNCHANGED pRet
              ELSE pRet' = got /\ ppc' = "done" /\ UNCHANGED pUrl
    /\ UNCHANGED <<pArgs, response, pStdout, dirExists, dirBefore, spawned, pExec>>
    /\ UNCHANGED apiVars
    /\ UNCHANGED httpVars
    /\ UNCHANGED plsVars

\* create_mp3, lines 58-60: extractor_domain_is_supported runs
\* --list-extractors and checks the URL's domain; what it returns is dropped
PipeVerify ==
    /\ ppc = "verify"
    /\ \E stdout \in ExtractorOutputs :
        LET got == extractor_domain_is_supported(Netloc(pUrl), stdout)
        IN  /\ pStdout' = stdout
            /\ stages' = Append(stages, Stage("verify", got.raised = "none"))
            /\ IF got.raised = "none"
               THEN ppc' = "ensure_dir" /\ UNCHANGED pRet
               ELSE pRet' = got /\ ppc' = "done"
    /\ spawned' = Append(spawned, ListExtractorsCmd)
    /\ UNCHANGED <<pArgs, response, pUrl, dirExists, dirBefore, pExec>>
    /\ UNCHANGED apiVars
    /\ UNCHANGED httpVars
    /\ UNCHANGED plsVars

\* create_mp3, line 61: mp3_dir_exists, lines 376-382, and mk_mp3_dir;
\* os.makedirs may fail
PipeEnsureDir ==
    /\ ppc = "ensure_dir"
    /\ IF ~dirExists /\ pArgs.create_mp3_dir
       THEN \E made \in BOOLEAN :
                IF made
                THEN dirExists' = TRUE /\ ppc' = "convert" /\ UNCHANGED pRet
                ELSE /\ pRet' = Raises("RadioRedditErr")
                     /\ ppc' = "done"
                     /\ UNCHANGED dirExists
       ELSE ppc' = "convert" /\ UNCHANGED <<dirExists, pRet>>
    /\ stages' = Append(stages, Stage("ensure_dir", ppc' = "convert"))
    /\ UNCHANGED <<pArgs, response, pUrl, pStdout, dirBefore, spawned, pExec>>
    /\ UNCHANGED apiVars
    /\ UNCHANGED httpVars
    /\ UNCHANGED plsVars

\* create_mp3, lines 62-78: the conversion runs and its output is read
PipeConvert ==
    /\ ppc = "convert"
    /\ spawned' = Append(spawned, ytdl_cmd(pUrl, pArgs.mp3_dir, SelfYtdlBin))
    /\ \E rc \in {0, 1}, err \in ConversionStderrs,
          out \in (IF pArgs.mp3_dir = ColonDir THEN ColonStdouts ELSE ConversionStdouts) :
        /\ pExec' = [rc |-> rc, out |-> out, err |-> err]
        /\ pRet' = create_mp3_outcome(rc, out, err)
        /\ stages' = Append(stages, Stage("convert", pRet'.raised = "none"))
    /\ ppc' = "done"
    /\ UNCHANGED <<pArgs, response, pUrl, pStdout, dirExists, dirBefore>>
    /\ UNCHANGED apiVars
    /\ UNCHANGED httpVars
    /\ UNCHANGED plsVars

\* The caller has its answer.
PipeReturn ==
    /\ ppc = "done"
    /\ ppc' = "idle"
    /\ pArgs' = NoPipeArgs
    /\ response' = JNull
    /\ pUrl' = None
    /\ pStdout' = <<>>
    /\ dirBefore' = dirExists
    /\ spawned' = <<>>
    /\ stages' = <<>>
    /\ pExec' = NoExec
    /\ pRet' = Returns(None)
    /\ UNCHANGED dirExists
    /\ UNCHANGED apiVars
    /\ UNCHANGED httpVars
    /\ UNCHANGED plsVars

PipeIdle ==
    /\ ppc = "idle"
    /\ pArgs = NoPipeArgs
    /\ response = JNull
    /\ pUrl = None
    /\ pStdout = <<>>
    /\ dirBefore = dirExists
    /\ spawned = <<>>
    /\ stages = <<>>
    /\ pExec = NoExec
    /\ pRet = Returns(None)

PipeStart == dirExists \in BOOLEAN /\ PipeIdle /\ ApiStart

PipeQuiet == dirExists = FALSE /\ PipeIdle /\ ApiStart

\* The arguments of the direct calls.
Domains == {YoutubeCom, YoutuBe, AsdfAsdf, VimeoCom, <<"w", "w", "w", ".">> \o YoutubeCom, <<>>}
Mp3Dirs == {DestDir, <<"/", "t", "m", "p", "/", "x">>}
YtdlBins == {None, <<>>, <<"/opt/youtube-dl">>}

\* A caller calls extractor_domain_is_supported(domain); the method runs
\* --list-extractors itself.
CallDomainIsSupported ==
    /\ ppc = "idle"
    /\ \E d \in Domains, stdout \in ExtractorOutputs :
        /\ apiArgs' = <<d, stdout>>
        /\ apiRet' = extractor_domain_is_supported(d, stdout)
    /\ apiFn' = "extractor_domain_is_supported"
    /\ UNCHANGED pipeVars
    /\ UNCHANGED httpVars
    /\ UNCHANGED plsVars

\* A caller calls ytdl_cmd(url, mp3_dir, ytdl_bin).
CallYtdlCmd ==
    /\ ppc = "idle"
    /\ \E u \in Urls, d \in Mp3Dirs, b \in YtdlBins :
        /\ apiArgs' = <<u, d, b>>
        /\ apiRet' = Returns(ytdl_cmd(u, d, b))
    /\ apiFn' = "ytdl_cmd"
    /\ UNCHANGED pipeVars
    /\ UNCHANGED httpVars
    /\ UNCHANGED plsVars

\* mp3_dir_exists, lines 376-382, and mk_mp3_dir, lines 337-343: what the
\* call returns or raises and whether the directory exists afterwards, given
\* os.path.isdir's answer and whether os.makedirs succeeds
mp3_dir_exists(isdir, create_mp3_dir, made) ==
    IF ~isdir
    THEN IF create_mp3_dir
         THEN IF made THEN [ret |-> Returns(TRUE), dir |-> TRUE]
              ELSE [ret |-> Raises("RadioRedditErr"), dir |-> FALSE]
         ELSE [ret |-> Returns(FALSE), dir |-> FALSE]
    ELSE [ret |-> Returns(FALSE), dir |-> TRUE]

\* A caller calls mp3_dir_exists(mp3_dir, create_mp3_dir); the third
\* argument recorded is whether the directory existed at the call.
CallMp3DirExists ==
    /\ ppc = "idle"
    /\ \E c \in BOOLEAN, made \in BOOLEAN :
        LET got == mp3_dir_exists(dirExists, c, made)
        IN  /\ apiArgs' = <<DestDir, c, dirExists>>
            /\ apiRet' = got.ret
            /\ dirExists' = got.dir
            /\ dirBefore' = got.dir
    /\ apiFn' = "mp3_dir_exists"
    /\ UNCHANGED <<ppc, pArgs, response, pUrl, pStdout, spawned, stages, pExec, pRet>>
    /\ UNCHANGED httpVars
    /\ UNCHANGED plsVars

-----------------------------------------------------------------------------
(***************************************************************************)
(* The specifications: the handler serving its connections, a caller of    *)
(* create_pls, and a caller of the RadioReddit object's other methods.     *)
(***************************************************************************)

HttpInit == HttpStart /\ PlsQuiet /\ PipeQuiet

HttpNext ==
    \E r \in Requests :
        \/ Connect(r)
        \/ Accept(r)
        \/ do_HEAD(r)
        \/ GetSendHeaders(r)
        \/ GetFilename(r)
        \/ FileExists(r)
        \/ ReadFile(r)
        \/ Shutdown(r)

SpecHttp == HttpInit /\ [][HttpNext]_vars

PlsInit == PlsStart /\ HttpStart /\ PipeQuiet

PlsNext ==
    \/ PlsCall
    \/ PlsGuard
    \/ PlsScan
    \/ PlsWrite
    \/ PlsWriteFails
    \/ PlsReturn

SpecPls == PlsInit /\ [][PlsNext]_vars

PipeInit == PipeStart /\ HttpStart /\ PlsQuiet

PipeNext ==
    \/ PipeCall
    \/ PipeFetch
    \/ PipeFetchFails
    \/ PipeExtract
    \/ PipeVerify
    \/ PipeEnsureDir
    \/ PipeConvert
    \/ PipeReturn
    \/ CallDomainIsSupported
    \/ CallYtdlCmd
    \/ CallMp3DirExists

SpecPipe == PipeInit /\ [][PipeNext]_vars

\* The scheduler runs every handler thread that can take a step, and the
\* accept loop; only a read of a slow file may stay blocked for ever. Clients
\* are not obliged to connect.
FastRead(r) == ReadFile(r) /\ ~Disk[filename[r]].slow

HttpFair ==
    \A r \in Requests :
        /\ WF_vars(Accept(r))
        /\ WF_vars(do_HEAD(r))
        /\ WF_vars(GetSendHeaders(r))
        /\ WF_vars(GetFilename(r))
        /\ WF_vars(FileExists(r))
        /\ WF_vars(FastRead(r))
        /\ WF_vars(Shutdown(r))

SpecHttpFair == HttpInit /\ [][HttpNext]_vars /\ HttpFair

-----------------------------------------------------------------------------
(***************************************************************************)
(* What a client reads off the socket.                                     *)
(***************************************************************************)

StatusLines(w) == SelectSeq(w, LAMBDA x : x.k = "status")

\* the response's status: the first status line on the socket
ResponseStatus(w) == IF StatusLines(w) = <<>> THEN 0 ELSE StatusLines(w)[1].code

\* the response's body: all that follows the first end of headers
RECURSIVE ResponseBody(_)
ResponseBody(w) ==
    IF w = <<>> THEN <<>>
    ELSE IF Head(w).k = "end" THEN Tail(w)
    ELSE ResponseBody(Tail(w))

\* file contents have been written to the socket
HasFileBytes(w) == \E i \in 1..Len(w) : w[i].k = "body"

Sent404(w) == \E i \in 1..Len(w) : w[i].k = "status" /\ w[i].code = 404

\* the request named a file: get_filename_from_qs returned a value
Named(r) == filename[r] # None

\* the request's query string gave no /file parameter, and the handler is over
ParseFailed(r) == ~Named(r) /\ pc[r] \in {"raised", "closed"}

\* file_exists has run for the request
Looked(r) == Named(r) /\ pc[r] \in {"read", "raised", "closed"}

Over(r) == pc[r] \in {"returned", "raised", "closed"}

\* C1: every GET request goes Received -> Dispatched -> FileLookup -> one of
\* Streaming, NotFound -> Closed: no status line is sent before the file has
\* been looked up (or the query string has been found to name no file), at
\* most one status line is sent, and file bytes are written only on the
\* Streaming branch (the file exists and no 404 was sent).
C1_OneStatusAfterLookup ==
    \A r \in Requests :
        method[r] = "GET" =>
            /\ StatusLines(wire[r]) # <<>> => (Looked(r) \/ ParseFailed(r))
            /\ Len(StatusLines(wire[r])) <= 1
            /\ HasFileBytes(wire[r]) =>
                   (Named(r) /\ IsFile(filename[r]) /\ ~Sent404(wire[r]))

\* C2: a GET request whose /file parameter names a path that is not a file
\* on the local filesystem is answered with status 404, and its connection
\* is closed.
C2_MissingFileIs404 ==
    \A r \in Requests :
        (method[r] = "GET" /\ Named(r) /\ ~IsFile(filename[r]) /\ Over(r)) =>
            /\ ResponseStatus(wire[r]) = 404
            /\ pc[r] = "closed" => closedBy[r] # "none"

\* C3: a GET request whose /file parameter names an existing readable file
\* is answered with status 200 and a body equal to the file's exact
\* contents, and the handler then closes the connection itself.
C3_ExistingFileIsServed ==
    \A r \in Requests :
        (/\ method[r] = "GET" /\ Named(r) /\ IsFile(filename[r])
         /\ Disk[filename[r]].readable /\ pc[r] = "closed") =>
            /\ ResponseStatus(wire[r]) = 200
            /\ ResponseBody(wire[r]) = <<Body(Disk[filename[r]].bytes)>>
            /\ closedBy[r] = "close_conn"

\* the request failed in query parsing or in filesystem access
Failed(r) ==
    \/ ParseFailed(r)
    \/ Looked(r) /\ ~IsFile(filename[r])
    \/ Looked(r) /\ IsFile(filename[r]) /\ ~Disk[filename[r]].readable
           /\ pc[r] \in {"raised", "closed"}

\* C4: when query parsing or filesystem access fails in a GET request, no
\* exception leaves the handler: the failure becomes a 404 response and the
\* connection is closed.
C4_FailureIs404NoException ==
    \A r \in Requests :
        (method[r] = "GET" /\ Failed(r)) =>
            /\ exc[r] = "none"
            /\ ResponseStatus(wire[r]) = 404
            /\ pc[r] = "closed" => closedBy[r] # "none"

\* the handler of r is blocked in the read of a slow file
BlockedInRead(r) == pc[r] = "read" /\ Disk[filename[r]].slow

\* C5: each connection has its own thread, so a request blocked in a slow
\* file read never keeps another from being dispatched and completed: every
\* request the server has received is closed in the end, unless it is
\* itself the one blocked in a slow read.
C5_SlowReadBlocksNoOther ==
    \A r \in Requests :
        (pc[r] = "received") ~> (pc[r] = "closed" \/ BlockedInRead(r))

\* C5's case: one GET is blocked in its read while another GET has streamed
\* its file and is closed.
C5_Witness ==
    \E r1, r2 \in Requests :
        /\ r1 # r2
        /\ BlockedInRead(r1)
        /\ pc[r2] = "closed" /\ method[r2] = "GET" /\ HasFileBytes(wire[r2])

-----------------------------------------------------------------------------
(***************************************************************************)
(* The playlist writer's claims.                                           *)
(***************************************************************************)

\* the lines of a text: what precedes each line feed
Lines(text) ==
    LET parts == Split(text, "LF") IN SubSeq(parts, 1, Len(parts) - 1)

\* C6: create_pls with overwrite=False, when a file is already at the
\* playlist's path, raises RadioRedditErr, leaves that file (and every
\* other) as it was, and scans no directory.
C6_NoOverwrite ==
    (plsPc = "done" /\ ~plsArgs.overwrite /\ plsOld[PlsPath].kind = "file") =>
        /\ plsRet.raised = "RadioRedditErr"
        /\ plsDisk = plsOld
        /\ mp3_files = <<>>

\* C6's case: the guarded call has ended, over an existing playlist.
C6_Witness ==
    /\ plsPc = "done"
    /\ ~plsArgs.overwrite
    /\ plsOld[PlsPath].kind = "file"
    /\ plsDisk[PlsPath] = OldFile

\* C7: when create_pls returns, over a directory in which find_files found
\* N files, the playlist's first line is [playlist], its second is
\* NumberOfEntries=N, and N lines follow, the i-th being File<i>=<the i-th
\* file found>, for i = 1..N.
C7_PlaylistLines ==
    (plsPc = "done" /\ plsRet.raised = "none") =>
        LET lines == Lines(plsDisk[plsRet.value].text)
            N     == Len(mp3_files)
        IN  /\ Len(lines) = N + 2
            /\ lines[1] = <<"[playlist]">>
            /\ lines[2] = <<"NumberOfEntries=">> \o Decimal(N)
            /\ \A i \in 1..N :
                   lines[i + 2] = <<"File">> \o Decimal(i) \o <<"=">> \o mp3_files[i]

\* C7's case: a recursive scan found files in the directory and in its
\* subdirectory, and the playlist was written.
C7_Witness ==
    /\ plsPc = "done"
    /\ plsRet.raised = "none"
    /\ plsArgs.recurse
    /\ \E i, j \in 1..Len(mp3_files) :
           /\ StartsWith(mp3_files[j], JoinPath(Music, SubName))
           /\ ~StartsWith(mp3_files[i], JoinPath(Music, SubName))

-----------------------------------------------------------------------------
(***************************************************************************)
(* The conversion pipeline's claims.                                       *)
(***************************************************************************)

\* the stages in the order the pipeline is to run them; making sure of the
\* mp3 directory opens the conversion
StageOrder == <<"fetch", "extract", "verify", "ensure_dir", "convert">>

\* a domain that contains no entry of the extractor list, once its dots
\* are removed
Unsupported(domain, entries) ==
    LET stripped == SelectSeq(domain, LAMBDA c : c # ".")
    IN  \A i \in 1..Len(entries) :
            \A k \in 0..(Len(stripped) - Len(entries[i])) :
                SubSeq(stripped, k + 1, k + Len(entries[i])) # entries[i]

\* the verify stage has run, over a URL whose domain is not supported
VerifiedUnsupported ==
    /\ \E i \in 1..Len(stages) : stages[i].name = "verify"
    /\ Unsupported(Netloc(pUrl), extractor_domains(pStdout))

\* C8: the pipeline runs fetch listing, extract target URL, verify domain,
\* run conversion in that order, each at most once and none again; after a
\* stage that failed no stage runs; and when the domain is not supported the
\* mp3 directory is not created and the conversion is never started.
C8_StagesInOrder ==
    /\ Len(stages) <= Len(StageOrder)
    /\ \A i \in 1..Len(stages) : stages[i].name = StageOrder[i]
    /\ \A i \in 1..(Len(stages) - 1) : stages[i].ok
    /\ (stages # <<>> /\ ~stages[Len(stages)].ok) =>
           (ppc = "done" /\ pRet.raised # "none")
    /\ VerifiedUnsupported =>
           /\ ppc = "done" /\ pRet.raised = "RadioRedditErr"
           /\ dirExists = dirBefore
           /\ spawned = <<ListExtractorsCmd>>

\* C8's case: the domain check has stopped a call that was to create the
\* missing mp3 directory.
C8_Witness ==
    /\ ppc = "done"
    /\ VerifiedUnsupported
    /\ pArgs.create_mp3_dir
    /\ ~dirBefore

\* C9: extractor_domain_is_supported(domain) returns True exactly when some
\* entry of the lowercased extractor list is a substring of the domain with
\* its dots removed, and raises RadioRedditErr otherwise (never False).
C9_SupportedIffSubstring ==
    apiFn = "extractor_domain_is_supported" =>
        IF Unsupported(apiArgs[1], extractor_domains(apiArgs[2]))
        THEN apiRet.raised = "RadioRedditErr"
        ELSE apiRet.raised = "none" /\ apiRet.value = TRUE

\* C9's case: 'youtu.be' is found supported through the entry 'youtube',
\* which is printed with capitals.
C9_Witness ==
    /\ apiFn = "extractor_domain_is_supported"
    /\ apiArgs[1] = YoutuBe
    /\ apiArgs[2] = <<"Y", "o", "u", "T", "u", "b", "e", ":", "t", "v", "LF">>
    /\ apiRet.raised = "none"
    /\ apiRet.value = TRUE

\* the tool path ytdl_cmd puts first: its argument, or self.ytdl_bin when
\* the argument is None or empty
ToolPath(ytdl_bin) == IF ytdl_bin \in {None, <<>>} THEN SelfYtdlBin ELSE ytdl_bin

OutputArg(mp3_dir) == <<"--output=">> \o mp3_dir \o <<"/%(title)s.%(ext)s">>

C11_TrueIffExists ==
    (apiFn = "mp3_dir_exists" /\ apiRet.raised = "none") =>
        /\ apiRet.value = dirExists
        /\ ~apiArgs[2] => (dirExists = apiArgs[3])

\* the conversion subprocess has run and create_mp3 has read its result
Converted == \E i \in 1..Len(stages) : stages[i].name = "convert"

\* the lines of a text that begin with the ERROR marker
ErrorLines(text) ==
    LET lines == Split(text, "LF")
    IN  {lines[i] : i \in {j \in 1..Len(lines) : StartsWith(lines[j], <<"ERROR">>)}}

\* C12: when the conversion exits with a nonzero code create_mp3 raises
\* RadioRedditErr whatever stdout holds, and what it raises carries every
\* line of stderr that begins with ERROR.
C12_NonzeroExitFails ==
    (Converted /\ pExec.rc # 0) =>
        /\ pRet.raised = "RadioRedditErr"
        /\ \A line \in ErrorLines(pExec.err) :
               \E i \in 1..Len(Split(pRet.value, "LF")) : Split(pRet.value, "LF")[i] = line

\* C12's case: a nonzero exit whose stdout names a destination and whose
\* stderr holds an ERROR line.
C12_Witness ==
    /\ Converted
    /\ pExec.rc = 1
    /\ Contains(pExec.out, <<"[ffmpeg]", " ", "Destination", ":">>)
    /\ ErrorLines(pExec.err) = {ErrorLine}
    /\ pRet.raised = "RadioRedditErr"

\* a stdout line that bears the skipping marker, or the destination marker
IsSkipping(line) ==
    Contains(line, <<"Post-process", " ", "file">>) /\ EndsWith(line, <<"skipping">>)

IsDestination(line) == Contains(line, <<"[ffmpeg]", " ", "Destination", ":">>)

\* the word of a line that stands immediately before the word 'exists'
TokenBeforeExists(line) ==
    LET ws == SplitWs(line)
        at == {j \in 2..Len(ws) : Head(ws[j]) = "exists"}
    IN  ws[(CHOOSE j \in at : \A k \in at : j <= k) - 1]

\* the text of a line after its first ': '
AfterFirstColon(line) ==
    SubSeq(line, FindSeq(line, <<":", " ">>, 1) + 2, Len(line))

\* C13: when the conversion exits with code zero, the first stdout line that
\* bears either marker decides: a skipping line raises RadioRedditErr naming
\* the token before 'exists', a destination line returns the text after its
\* first ': ', and with no such line create_mp3 returns None.
C13_FirstMatchDecides ==
    (Converted /\ pExec.rc = 0) =>
        LET lines == Split(pExec.out, "LF")
            hits == {i \in 1..Len(lines) : IsSkipping(lines[i]) \/ IsDestination(lines[i])}
        IN  IF hits = {}
            THEN pRet.raised = "none" /\ pRet.value = None
            ELSE LET line == lines[CHOOSE i \in hits : \A k \in hits : i <= k]
                 IN  IF IsSkipping(line)
                     THEN /\ pRet.raised = "RadioRedditErr"
                          /\ StartsWith(pRet.value, TokenBeforeExists(line))
                     ELSE /\ pRet.raised = "none"
                          /\ pRet.value = AfterFirstColon(line)

\* the extract stage, listing_url over listing_data, has failed
ExtractFailed == \E i \in 1..Len(stages) : stages[i].name = "extract" /\ ~stages[i].ok

\* C14: every failure of listing_data and listing_url is a RadioRedditErr:
\* a listing type outside random and top, a key or an index missing from the
\* response, and a listing without a url raise it and nothing else.
C14_OnlyRadioRedditErr ==
    ExtractFailed => pRet.raised = "RadioRedditErr"

=============================================================================
